---- MODULE Spec2Model ----
(***************************************************************************)
(* Model of serde_scala (src/src/lib.rs): the Pitch and Scale text codec.  *)
(*                                                                         *)
(* Text is a sequence of one-character strings.  The results of the        *)
(* fallible functions are records                                          *)
(*     [tag |-> "Ok", val |-> v]     Ok(v)                                 *)
(*     [tag |-> "Err", err |-> e]    Err(e)                                *)
(*     [tag |-> "Panic"]             the call unwinds (a panic!)           *)
(* Option values are sequences of length 0 (None) or 1 (Some(v)).          *)
(***************************************************************************)
EXTENDS Integers, Sequences, FiniteSets, TLC

VARIABLES
    text,           \* the &str handed to from_str (or written by Display)
    scale,          \* the Scale value handed to Display (round-trip runs)
    lines,          \* s.lines() of Scale::from_str
    pos,            \* number of lines the for loop has completed
    name,           \* let mut name = None
    pitch_count,    \* let mut pitch_count = None
    pitches,        \* let mut pitches = vec![]
    ret,            \* what Scale::from_str has returned, or Running
    written,        \* Some(text Display for Scale wrote) (round-trip runs)
    pitch,          \* what Pitch::from_str has returned (pitch runs)
    shown           \* Some(text Display for Pitch wrote) (pitch runs)

vars == <<text, scale, lines, pos, name, pitch_count, pitches, ret, written, pitch, shown>>

----------------------------------------------------------------------------
(* Bounds of the model. *)

\* Longest pitch text enumerated in the pitch runs.
MaxPitchLen == 4
\* Most lines of a scale text enumerated in the scale runs.
MaxLines == 4
\* Most pitches of a Scale value in the round-trip runs.
MaxPitches == 2
\* Stand-in for u128::MAX (2^128 - 1), scaled to the model's text lengths so
\* that an out-of-range numerator or denominator can be written.
U128_MAX == 999
\* Stand-in for usize::MAX, scaled likewise.
USIZE_MAX == 99

----------------------------------------------------------------------------
(* Results and options. *)

Ok(v) == [tag |-> "Ok", val |-> v]
Err(e) == [tag |-> "Err", err |-> e]
Panic == [tag |-> "Panic"]
Running == [tag |-> "Running"]

None == <<>>
Some(v) == <<v>>

ParseIntError(k) == [type |-> "ParseInt", kind |-> k]
ParseFloatError(k) == [type |-> "ParseFloat", kind |-> k]
MissingDescription == [type |-> "MissingDescription"]
MissingNoteCount == [type |-> "MissingNoteCount"]
WrongPitchCount(n) == [type |-> "WrongPitchCount", n |-> n]

----------------------------------------------------------------------------
(* str helpers of the standard library, as the code uses them. *)

Digits == <<"0", "1", "2", "3", "4", "5", "6", "7", "8", "9">>
IsDigit(c) == \E i \in 1..10 : Digits[i] = c
DigitVal(c) == (CHOOSE i \in 1..10 : Digits[i] = c) - 1

\* char::is_whitespace, over the characters the model writes
is_whitespace(c) == c \in {" ", "\t", "\n", "\r"}

\* str::contains(c) for a one-character pattern
contains(s, c) == \E i \in 1..Len(s) : s[i] = c

\* index of the first c in s, Len(s) + 1 when there is none
RECURSIVE IndexOf(_, _)
IndexOf(s, c) == IF s = <<>> \/ Head(s) = c THEN 1 ELSE 1 + IndexOf(Tail(s), c)

SplitAt(s, i) == IF i > Len(s) THEN None ELSE Some(<<SubSeq(s, 1, i - 1), SubSeq(s, i + 1, Len(s))>>)

\* str::split_once(c): None, or Some((before, after)) around the first c
split_once(s, c) == SplitAt(s, IndexOf(s, c))

\* s.replace(" ", "")
remove_spaces(s) == SelectSeq(s, LAMBDA c : c # " ")

\* s.chars().filter(|c| !c.is_whitespace()).collect()
filter_whitespace(s) == SelectSeq(s, LAMBDA c : ~is_whitespace(c))

StartsWith(s, p) == Len(s) >= Len(p) /\ SubSeq(s, 1, Len(p)) = p

CentsWord == <<"c", "e", "n", "t", "s">>

\* s.replace("cents", ""): every non-overlapping match, left to right
RECURSIVE remove_cents(_)
remove_cents(s) ==
    IF s = <<>> THEN <<>>
    ELSE IF StartsWith(s, CentsWord) THEN remove_cents(SubSeq(s, Len(CentsWord) + 1, Len(s)))
    ELSE <<Head(s)>> \o remove_cents(Tail(s))

\* str::lines(): split_inclusive('\n'), then strip the "\n" and one "\r"
\* before it; a last line with no "\n" is yielded as it is.
StripLineEnd(l) == IF l # <<>> /\ l[Len(l)] = "\r" THEN SubSeq(l, 1, Len(l) - 1) ELSE l
RECURSIVE str_lines(_)
LinesFrom(s, i) ==
    IF i > Len(s) THEN <<s>>
    ELSE <<StripLineEnd(SubSeq(s, 1, i - 1))>> \o str_lines(SubSeq(s, i + 1, Len(s)))
str_lines(s) == IF s = <<>> THEN <<>> ELSE LinesFrom(s, IndexOf(s, "\n"))

----------------------------------------------------------------------------
(* Integer parsing and formatting (u128 and usize FromStr, Display). *)

\* the digit loop of from_str_radix: InvalidDigit at the first non-digit,
\* PosOverflow when the accumulated value leaves the type
RECURSIVE ParseDigits(_, _, _)
ParseDigits(s, acc, max) ==
    IF s = <<>> THEN Ok(acc)
    ELSE IF ~IsDigit(Head(s)) THEN Err(ParseIntError("InvalidDigit"))
    ELSE IF acc * 10 + DigitVal(Head(s)) > max THEN Err(ParseIntError("PosOverflow"))
    ELSE ParseDigits(Tail(s), acc * 10 + DigitVal(Head(s)), max)

\* <unsigned>::from_str: empty is Empty, a lone sign is InvalidDigit, a
\* leading "+" is accepted, a leading "-" is a non-digit
ParseUInt(s, max) ==
    IF s = <<>> THEN Err(ParseIntError("Empty"))
    ELSE IF s = <<"+">> \/ s = <<"-">> THEN Err(ParseIntError("InvalidDigit"))
    ELSE ParseDigits(IF Head(s) = "+" THEN Tail(s) ELSE s, 0, max)

RECURSIVE FormatUInt(_)
FormatUInt(n) == IF n < 10 THEN <<Digits[n + 1]>> ELSE FormatUInt(n \div 10) \o <<Digits[(n % 10) + 1]>>

----------------------------------------------------------------------------
(* num_rational::Ratio<u128>, as Ratio::new builds it. *)

RECURSIVE gcd(_, _)
gcd(a, b) == IF b = 0 THEN a ELSE gcd(b, a % b)

\* Ratio::reduce: panics on a zero denominator, 0/d becomes 0/1, otherwise
\* numerator and denominator are divided by their gcd
\* reduce, with the division by the gcd left out
reduce_Unreduced(n, d) == IF d = 0 THEN Panic ELSE Ok([numer |-> n, denom |-> d])

DivideBoth(n, d, g) == [numer |-> n \div g, denom |-> d \div g]

reduce(n, d) ==
    IF d = 0 THEN Panic
    ELSE IF n = 0 THEN Ok([numer |-> 0, denom |-> 1])
    ELSE Ok(DivideBoth(n, d, gcd(n, d)))

\* Ratio::new(numer, denom): new_raw, then reduce
Ratio_new(n, d) == reduce(n, d)

----------------------------------------------------------------------------
(* f64.  A finite value is an integer count of 10^-6 cents (Fin(1500000)   *)
(* is 1.5); the non-finite values are Inf(1), Inf(-1) and NaN.             *)

\* the "{:.5}" of Display for Pitch
FmtPrecision == 5

\* one digit finer than the format writes, so that its rounding shows
FracUnitDigits == FmtPrecision + 1

Fin(u) == [fin |-> TRUE, u |-> u]
Inf(sign) == [fin |-> FALSE, u |-> sign]
NaN == [fin |-> FALSE, u |-> 0]

\* Stand-in for the decimal exponent range of f64: a finite value has at most
\* this many digits before the decimal point (what TLC's 32-bit integers
\* hold beside the fraction digits); anything larger parses to inf.
F64_MAX_DIGITS == 9 - FracUnitDigits

RECURSIVE Pow10(_)
Pow10(k) == IF k <= 0 THEN 1 ELSE 10 * Pow10(k - 1)

Abs(x) == IF x < 0 THEN 0 - x ELSE x

\* a / b rounded to the nearest integer, ties to even (a >= 0, b > 0)
RoundDiv(a, b) ==
    LET q == a \div b
        r == a % b
    IN  IF 2 * r < b THEN q
        ELSE IF 2 * r > b THEN q + 1
        ELSE IF q % 2 = 0 THEN q ELSE q + 1

\* the f64 PartialEq: NaN equals nothing
f64_eq(a, b) == a # NaN /\ a = b

\* length of the run of decimal digits at the head of s
RECURSIVE DigitRun(_)
DigitRun(s) == IF s # <<>> /\ IsDigit(Head(s)) THEN 1 + DigitRun(Tail(s)) ELSE 0

\* value of a digit string, leading zeros dropped; 0 for the empty string
RECURSIVE DigitsVal(_)
DigitsVal(s) == IF s = <<>> THEN 0 ELSE DigitsVal(SubSeq(s, 1, Len(s) - 1)) * 10 + DigitVal(s[Len(s)])

RECURSIVE StripZeros(_)
StripZeros(s) == IF s # <<>> /\ Head(s) = "0" THEN StripZeros(Tail(s)) ELSE s

Lower(c) == IF c = "I" THEN "i" ELSE IF c = "N" THEN "n" ELSE IF c = "F" THEN "f" ELSE IF c = "A" THEN "a" ELSE c
LowerStr(s) == [i \in 1..Len(s) |-> Lower(s[i])]

\* mantissa digits m (no leading zeros) times 10^e, in units of 10^-6:
\* too many digits before the point overflow to inf, too small a value
\* rounds to 0
Scaled(v, shift) == IF shift >= 0 THEN v * Pow10(shift) ELSE RoundDiv(v, Pow10(0 - shift))

Decimal(m, e, sign) ==
    IF m = <<>> THEN Fin(0)
    ELSE IF Len(m) + e > F64_MAX_DIGITS THEN Inf(sign)
    ELSE IF 0 - (e + FracUnitDigits) > Len(m) THEN Fin(0)
    ELSE Fin(sign * Scaled(DigitsVal(m), e + FracUnitDigits))

\* the exponent digits: at least one, and nothing after them
ParseExpDigits(int, frac, r, esign, sign) ==
    IF r = <<>> \/ DigitRun(r) # Len(r) THEN Err(ParseFloatError("Invalid"))
    ELSE Ok(Decimal(StripZeros(int \o frac),
                    esign * (IF Len(StripZeros(r)) > 2 THEN 99 ELSE DigitsVal(StripZeros(r))) - Len(frac),
                    sign))

\* after the mantissa: the end, or "e" [sign] digits
ParseExp(int, frac, r, sign) ==
    IF Len(int) + Len(frac) = 0 THEN Err(ParseFloatError("Invalid"))
    ELSE IF r = <<>> THEN Ok(Decimal(StripZeros(int \o frac), 0 - Len(frac), sign))
    ELSE IF Head(r) \notin {"e", "E"} THEN Err(ParseFloatError("Invalid"))
    ELSE ParseExpDigits(int, frac,
                        IF Len(r) > 1 /\ r[2] \in {"+", "-"} THEN SubSeq(r, 3, Len(r)) ELSE Tail(r),
                        IF Len(r) > 1 /\ r[2] = "-" THEN 0 - 1 ELSE 1,
                        sign)

SplitRun(s, n) == <<SubSeq(s, 1, n), SubSeq(s, n + 1, Len(s))>>

ParseFraction(int, fr, sign) == ParseExp(int, fr[1], fr[2], sign)

\* after the integer digits: an optional "." and fraction digits
ParseMantissa(ir, sign) ==
    IF ir[2] # <<>> /\ Head(ir[2]) = "." THEN ParseFraction(ir[1], SplitRun(Tail(ir[2]), DigitRun(Tail(ir[2]))), sign)
    ELSE ParseFraction(ir[1], <<<<>>, ir[2]>>, sign)

\* the number after the sign: digits [. digits] [e [sign] digits], with at
\* least one mantissa digit
ParseNumber(s, sign) == ParseMantissa(SplitRun(s, DigitRun(s)), sign)

IsInfWord(w) == w \in {<<"i", "n", "f">>, <<"i", "n", "f", "i", "n", "i", "t", "y">>}

ParseUnsigned(rest, sign) ==
    IF rest = <<>> THEN Err(ParseFloatError("Invalid"))
    ELSE IF IsInfWord(LowerStr(rest)) THEN Ok(Inf(sign))
    ELSE IF LowerStr(rest) = <<"n", "a", "n">> THEN Ok(NaN)
    ELSE ParseNumber(rest, sign)

\* f64::from_str
ParseFloat(s) ==
    IF s = <<>> THEN Err(ParseFloatError("Empty"))
    ELSE ParseUnsigned(IF Head(s) \in {"+", "-"} THEN Tail(s) ELSE s,
                       IF Head(s) = "-" THEN 0 - 1 ELSE 1)

Pad(ds, width) == [i \in 1..(width - Len(ds)) |-> "0"] \o ds

\* format!("{:.5}", v): the value rounded to 5 decimals, with its sign;
\* the non-finite values are written as words
FormatFixed(r, unit) == FormatUInt(r \div unit) \o <<".">> \o Pad(FormatUInt(r % unit), FmtPrecision)

FormatFloat5(v) ==
    IF v = NaN THEN <<"N", "a", "N">>
    ELSE (IF v.u < 0 THEN <<"-">> ELSE <<>>)
         \o (IF v.fin
             THEN FormatFixed(RoundDiv(Abs(v.u), Pow10(FracUnitDigits - FmtPrecision)), Pow10(FmtPrecision))
             ELSE <<"i", "n", "f">>)

----------------------------------------------------------------------------
(* Pitch *)

Cents(v) == [kind |-> "Cents", cents |-> v]
Ratio(r) == [kind |-> "Ratio", ratio |-> r]

\* #[derive(PartialEq)] for Pitch
Pitch_eq(p, q) ==
    /\ p.kind = q.kind
    /\ p.kind = "Cents" => f64_eq(p.cents, q.cents)
    /\ p.kind = "Ratio" => p.ratio.numer * q.ratio.denom = q.ratio.numer * p.ratio.denom

\* impl Display for Pitch
Pitch_fmt(p) ==
    IF p.kind = "Cents" THEN FormatFloat5(p.cents)
    ELSE FormatUInt(p.ratio.numer) \o <<"/">> \o FormatUInt(p.ratio.denom)

\* Ok(Self::Ratio(...)) around what Ratio::new gave; its panic unwinds
WrapRatio(r) == IF r = Panic THEN Panic ELSE Ok(Ratio(r.val))

\* Ok(Self::Cents(s.parse()?))
WrapCents(v) == IF v.tag = "Err" THEN v ELSE Ok(Cents(v.val))

\* Ratio::new(numer.parse()?, denom.parse()?): the numerator's error first,
\* the denominator's second, Ratio::new last
RatioOf(numer, denom) ==
    IF numer.tag = "Err" THEN numer
    ELSE IF denom.tag = "Err" THEN denom
    ELSE WrapRatio(Ratio_new(numer.val, denom.val))

\* the "/" branch, on the halves split_once gave
RatioBranch(parts) == RatioOf(ParseUInt(parts[1], U128_MAX), ParseUInt(parts[2], U128_MAX))

\* impl FromStr for Pitch, on the text with its spaces removed
ParseStripped(s) ==
    IF contains(s, ".") THEN WrapCents(ParseFloat(remove_cents(s)))
    ELSE IF contains(s, "/") THEN RatioBranch(split_once(s, "/")[1])
    ELSE RatioOf(ParseUInt(s, U128_MAX), Ok(1))

\* impl FromStr for Pitch
Pitch_from_str(t) == ParseStripped(remove_spaces(t))

----------------------------------------------------------------------------
(* Scale *)

Scale_new(n, ps) == [name |-> n, pitches |-> ps]

\* impl From<ParsePitchError> for ParseScaleError
From_ParsePitchError(e) ==
    IF e.type = "ParseFloat" THEN ParseFloatError(e.kind) ELSE ParseIntError(e.kind)

\* DeComment, cutting at the last "!" (rsplit_once) instead of the first
RECURSIVE CutLast(_)
CutLast(l) == IF l[Len(l)] = "!" THEN SubSeq(l, 1, Len(l) - 1) ELSE CutLast(SubSeq(l, 1, Len(l) - 1))
DeComment_LastBang(l) == IF contains(l, "!") THEN CutLast(l) ELSE l

\* s.split_once("!").map(|(s, _)| s).unwrap_or(s)
BeforeBang(l, sp) == IF sp = None THEN l ELSE sp[1][1]
DeComment(l) == BeforeBang(l, split_once(l, "!"))

\* pitch_count = Some(s.parse()?)
CountLine(st, c) ==
    IF c.tag = "Err" THEN [st EXCEPT !.ret = c]
    ELSE [st EXCEPT !.pitch_count = Some(c.val)]

\* pitches.push(s.parse()?)
PitchLine(st, p) ==
    IF p.tag = "Ok" THEN [st EXCEPT !.pitches = Append(@, p.val)]
    ELSE IF p.tag = "Err" THEN [st EXCEPT !.ret = Err(From_ParsePitchError(p.err))]
    ELSE [st EXCEPT !.ret = Panic]

\* LineBody, without the `continue` on an empty line
LineBody_NoSkip(st, s) ==
    IF st.name = None THEN [st EXCEPT !.name = Some(s)]
    ELSE IF st.pitch_count = None THEN CountLine(st, ParseUInt(filter_whitespace(s), USIZE_MAX))
    ELSE PitchLine(st, Pitch_from_str(filter_whitespace(s)))

\* the body of the loop on a line s whose comment is removed
LineBody(st, s) ==
    IF s = <<>> THEN st
    ELSE IF st.name = None THEN [st EXCEPT !.name = Some(s)]
    ELSE IF st.pitch_count = None THEN CountLine(st, ParseUInt(filter_whitespace(s), USIZE_MAX))
    ELSE PitchLine(st, Pitch_from_str(filter_whitespace(s)))

\* one iteration of `for s in s.lines()` on the locals st
LoopBody(st, l) == LineBody(st, DeComment(l))

\* AfterLoop, asking for the count before the description
AfterLoop_CountFirst(st) ==
    IF st.pitch_count = None THEN Err(MissingNoteCount)
    ELSE IF st.name = None THEN Err(MissingDescription)
    ELSE IF Len(st.pitches) # st.pitch_count[1] THEN Err(WrongPitchCount(Len(st.pitches)))
    ELSE Ok(Scale_new(st.name[1], st.pitches))

\* AfterLoop, reporting the declared count in WrongPitchCount
AfterLoop_DeclaredCount(st) ==
    IF st.name = None THEN Err(MissingDescription)
    ELSE IF st.pitch_count = None THEN Err(MissingNoteCount)
    ELSE IF Len(st.pitches) # st.pitch_count[1] THEN Err(WrongPitchCount(st.pitch_count[1]))
    ELSE Ok(Scale_new(st.name[1], st.pitches))

\* the code after the loop
AfterLoop(st) ==
    IF st.name = None THEN Err(MissingDescription)
    ELSE IF st.pitch_count = None THEN Err(MissingNoteCount)
    ELSE IF Len(st.pitches) # st.pitch_count[1] THEN Err(WrongPitchCount(Len(st.pitches)))
    ELSE Ok(Scale_new(st.name[1], st.pitches))

Locals0 == [name |-> None, pitch_count |-> None, pitches |-> <<>>, ret |-> Running]

\* the loop: a `?` that fails returns at once
RECURSIVE RunLoop(_, _)
Continue(st, rest) == IF st.ret # Running THEN st.ret ELSE RunLoop(st, rest)
RunLoop(st, ls) == IF ls = <<>> THEN AfterLoop(st) ELSE Continue(LoopBody(st, Head(ls)), Tail(ls))

\* impl FromStr for Scale
Scale_from_str(t) == RunLoop(Locals0, str_lines(t))

RECURSIVE JoinLines(_)
JoinLines(ls) == IF ls = <<>> THEN <<>> ELSE Head(ls) \o <<"\n">> \o JoinLines(Tail(ls))

GeneratedComment == <<"!", " ", "G", "e", "n", "e", "r", "a", "t", "e", "d", " ", "s", "c", "a", "l", "e", ":">>

\* Scale_fmt, without the line that holds the number of pitches
Scale_fmt_NoCount(sc) ==
    JoinLines(<<GeneratedComment, sc.name, <<"!">>>>
              \o [i \in 1..Len(sc.pitches) |-> Pitch_fmt(sc.pitches[i])])

\* impl Display for Scale
Scale_fmt(sc) ==
    JoinLines(<<GeneratedComment, sc.name, FormatUInt(Len(sc.pitches)), <<"!">>>>
              \o [i \in 1..Len(sc.pitches) |-> Pitch_fmt(sc.pitches[i])])

----------------------------------------------------------------------------
(* The inputs the runs draw from. *)

Seqs(S, n) == UNION {[1..k -> S] : k \in 0..n}

\* lines of a scale text: empty, comment only, indented comment, counts
\* (or integer pitches), pitches (one with a trailing comment, one with a
\* zero denominator, one in cents) and a lone "."; any non-empty one can be
\* the description
LinePool ==
    { <<>>,
      <<"!", "c">>,
      <<" ", "!">>,
      <<"1">>,
      <<"2">>,
      <<"3", "/", "2", " ", "!", "c">>,
      <<"1", ".", "5">>,
      <<"1", "/", "0">>,
      <<".">> }

ScaleTexts == {JoinLines(ls) : ls \in Seqs(LinePool, MaxLines)}

PitchChars == {"0", "1", "2", "/", ".", " ", "a"}

\* pitch texts the enumeration is too short for: the "cents" suffix, an
\* exponent, a sign
LongPitchTexts ==
    { <<"1", ".", "5", "c", "e", "n", "t", "s">>,
      <<"1", ".", " ", "c", "e", "n", "t", "s", "5">>,
      <<"c", "e", "n", "t", "s">>,
      <<"1", ".", "5", "e", "2">>,
      <<"-", "1", ".", "5">>,
      <<"+", "4", "/", "2">>,
      <<"-", "1">> }

PitchTexts == Seqs(PitchChars, MaxPitchLen) \cup LongPitchTexts

\* names of Scale values: plain, with inner and outer spaces, numeric,
\* empty, with a "!", with a line break, ending in a carriage return
NamePool ==
    { <<"a">>,
      <<" ", "a", " ", "b">>,
      <<"1">>,
      <<>>,
      <<"a", "!", "b">>,
      <<"a", "\n", "2">>,
      <<"a", "\r">> }

\* pitches as add_pitch! builds them: Pitch::Cents(c), Pitch::Ratio(Ratio::new(n, d))
PitchPool ==
    { Cents(Fin(1500000)),
      Cents(Fin(700123456)),
      Cents(Fin(0 - 12345675)),
      Cents(Inf(1)),
      Cents(NaN),
      WrapRatio(Ratio_new(3, 2)).val,
      WrapRatio(Ratio_new(4, 2)).val,
      WrapRatio(Ratio_new(0, 5)).val }

Scales == {Scale_new(n, ps) : n \in NamePool, ps \in Seqs(PitchPool, MaxPitches)}

NoScale == Scale_new(<<>>, <<>>)

----------------------------------------------------------------------------
(* Scale::from_str, one loop iteration per step. *)

Locals == [name |-> name, pitch_count |-> pitch_count, pitches |-> pitches, ret |-> ret]

Line == lines[pos + 1]

InLoop == ret = Running /\ pos < Len(lines)

\* the loop body on the next line; an iteration that returns leaves pos at
\* the line that made it return
Assign(st) ==
    /\ name' = st.name
    /\ pitch_count' = st.pitch_count
    /\ pitches' = st.pitches
    /\ ret' = st.ret
    /\ pos' = IF st.ret = Running THEN pos + 1 ELSE pos
    /\ UNCHANGED <<text, scale, lines, written, pitch, shown>>

Iterate == Assign(LoopBody(Locals, Line))

\* if s == "" { continue }
SkipLine == InLoop /\ DeComment(Line) = <<>> /\ Iterate

\* else if name.is_none() { name = Some(s.to_string()) }
SetName == InLoop /\ DeComment(Line) # <<>> /\ name = None /\ Iterate

\* if pitch_count.is_none() { pitch_count = Some(s.parse()?) }
SetPitchCount == InLoop /\ DeComment(Line) # <<>> /\ name # None /\ pitch_count = None /\ Iterate

\* else { pitches.push(s.parse()?) }
PushPitch == InLoop /\ DeComment(Line) # <<>> /\ name # None /\ pitch_count # None /\ Iterate

\* the checks after the loop and the final Ok
Return ==
    /\ ret = Running
    /\ pos = Len(lines)
    /\ ret' = AfterLoop(Locals)
    /\ UNCHANGED <<text, scale, lines, pos, name, pitch_count, pitches, written, pitch, shown>>

Init ==
    /\ text \in ScaleTexts
    /\ lines = str_lines(text)
    /\ pos = 0
    /\ name = None
    /\ pitch_count = None
    /\ pitches = <<>>
    /\ ret = Running
    /\ scale = NoScale
    /\ written = None
    /\ pitch = Running
    /\ shown = None

Next == SkipLine \/ SetName \/ SetPitchCount \/ PushPitch \/ Return

Spec == Init /\ [][Next]_vars

----------------------------------------------------------------------------
(* Pitch::from_str and Display for Pitch on one pitch text. *)

InitPitch ==
    /\ text \in PitchTexts
    /\ pitch = Running
    /\ shown = None
    /\ lines = <<>>
    /\ pos = 0
    /\ name = None
    /\ pitch_count = None
    /\ pitches = <<>>
    /\ ret = Running
    /\ scale = NoScale
    /\ written = None

ParsePitch ==
    /\ pitch = Running
    /\ pitch' = Pitch_from_str(text)
    /\ UNCHANGED <<text, scale, lines, pos, name, pitch_count, pitches, ret, written, shown>>

ShowPitch ==
    /\ pitch.tag = "Ok"
    /\ shown = None
    /\ shown' = Some(Pitch_fmt(pitch.val))
    /\ UNCHANGED <<text, scale, lines, pos, name, pitch_count, pitches, ret, written, pitch>>

NextPitch == ParsePitch \/ ShowPitch

SpecPitch == InitPitch /\ [][NextPitch]_vars

----------------------------------------------------------------------------
(* Display for Scale, then Scale::from_str of what it wrote. *)

InitRound ==
    /\ scale \in Scales
    /\ written = None
    /\ ret = Running
    /\ text = <<>>
    /\ lines = <<>>
    /\ pos = 0
    /\ name = None
    /\ pitch_count = None
    /\ pitches = <<>>
    /\ pitch = Running
    /\ shown = None

WriteScale ==
    /\ written = None
    /\ written' = Some(Scale_fmt(scale))
    /\ UNCHANGED <<text, scale, lines, pos, name, pitch_count, pitches, ret, pitch, shown>>

ReadScale ==
    /\ written # None
    /\ ret = Running
    /\ ret' = Scale_from_str(written[1])
    /\ UNCHANGED <<text, scale, lines, pos, name, pitch_count, pitches, written, pitch, shown>>

NextRound == WriteScale \/ ReadScale

SpecRound == InitRound /\ [][NextRound]_vars

----------------------------------------------------------------------------
(* What the claims speak of, stated apart from the parser. *)

\* the non-empty de-commented lines of ls, in order
Significant(ls) == SelectSeq([i \in 1..Len(ls) |-> DeComment(ls[i])], LAMBDA l : l # <<>>)

\* the lines the loop has completed
Consumed == SubSeq(lines, 1, pos)

Returned == ret # Running

InsertAt(ls, i, l) == SubSeq(ls, 1, i) \o <<l>> \o SubSeq(ls, i + 1, Len(ls))

AComment == <<"!", " ", "x">>

\* a count or pitch line with its whitespace removed, as the parser reads it
Squeezed(l) == filter_whitespace(l)

----------------------------------------------------------------------------
\* C8: Scale parse is a single pass AwaitingName -> AwaitingCount ->
\* CollectingPitches.  After m successfully processed non-empty de-commented
\* lines the state is AwaitingName if m = 0, AwaitingCount if m = 1 and
\* CollectingPitches with m - 2 pitches if m >= 2; a step never moves the
\* state backwards and never overwrites a name or a count that is set.

Stage == IF name = None THEN 0 ELSE IF pitch_count = None THEN 1 ELSE 2 + Len(pitches)

C8_StateOfPrefix ==
    /\ Stage = Len(Significant(Consumed))
    /\ name = None => pitch_count = None
    /\ pitch_count = None => pitches = <<>>

C8_Step ==
    /\ name # None => name' = name
    /\ pitch_count # None => pitch_count' = pitch_count
    /\ Stage' >= Stage
    /\ Stage' <= Stage + 1
    /\ pos' >= pos
    /\ (pos' = pos + 1 /\ DeComment(Line) # <<>>) => Stage' = Stage + 1
    /\ SubSeq(pitches', 1, Len(pitches)) = pitches

C8_SinglePass == [](C8_StateOfPrefix) /\ [][C8_Step]_vars

\* three lines processed and one skipped: CollectingPitches with one pitch
C8_Witness == ret = Running /\ pos = 4 /\ Len(pitches) = 1

----------------------------------------------------------------------------
\* C3: Scale parse fails with MissingDescription exactly when the input has
\* no non-empty de-commented line, and with MissingNoteCount exactly when it
\* has exactly one; so MissingDescription goes before MissingNoteCount, and
\* both before WrongPitchCount.

C3_MissingHeader ==
    Returned =>
        /\ ret = Err(MissingDescription) <=> Len(Significant(lines)) = 0
        /\ ret = Err(MissingNoteCount) <=> Len(Significant(lines)) = 1

\* a description among blank lines and nothing else
C3_Witness == ret = Err(MissingNoteCount) /\ Len(lines) = 3

----------------------------------------------------------------------------
\* C2: when the input has a name line, a valid count line declaring c and k
\* following pitch lines that all parse, the parse returns exactly those k
\* pitches in input order if k = c and fails with WrongPitchCount(k) if not,
\* and it returns only once every line is consumed.

CountOf(sig) == ParseUInt(Squeezed(sig[2]), USIZE_MAX)

PitchOf(sig, i) == Pitch_from_str(Squeezed(sig[i + 2]))

WellFormed(sig) ==
    /\ Len(sig) >= 2
    /\ CountOf(sig).tag = "Ok"
    /\ \A i \in 1..(Len(sig) - 2) : PitchOf(sig, i).tag = "Ok"

Expected(sig) ==
    IF Len(sig) - 2 = CountOf(sig).val
    THEN Ok(Scale_new(sig[1], [i \in 1..(Len(sig) - 2) |-> PitchOf(sig, i).val]))
    ELSE Err(WrongPitchCount(Len(sig) - 2))

C2_CountChecked ==
    (Returned /\ WellFormed(Significant(lines))) =>
        /\ ret = Expected(Significant(lines))
        /\ pos = Len(lines)

\* a scale of two different pitches is returned
C2_Witness ==
    /\ ret.tag = "Ok"
    /\ Len(ret.val.pitches) = 2
    /\ ret.val.pitches[1] # ret.val.pitches[2]

----------------------------------------------------------------------------
\* C4: every line is cut at its first "!" and a line left empty is skipped,
\* so the result of Scale parse depends only on the sequence of non-empty
\* de-commented lines: appending a "! ..." comment to any line, or inserting
\* an empty or "!"-initial line at any position, never changes it.

C4_CommentsIgnored ==
    Returned =>
        /\ ret = Scale_from_str(JoinLines(Significant(lines)))
        /\ \A i \in 1..Len(lines) :
              ret = RunLoop(Locals0, [lines EXCEPT ![i] = @ \o AComment])
        /\ \A i \in 0..Len(lines) : \A l \in {<<>>, AComment} :
              ret = RunLoop(Locals0, InsertAt(lines, i, l))

\* "3/2 !c" among comment lines is read as the pitch 3/2
C4_Witness ==
    /\ ret.tag = "Ok"
    /\ \E i \in 1..Len(lines) : lines[i] = <<"!", "c">>
    /\ lines[Len(lines)] = <<"3", "/", "2", " ", "!", "c">>
    /\ ret.val.pitches = <<Ratio([numer |-> 3, denom |-> 2])>>

----------------------------------------------------------------------------
\* C7: if a count or pitch line is malformed, Scale parse returns the
\* ParseInt/ParseFloat error of the first malformed line in input order and
\* examines no later line, whatever lines precede or follow it.

\* what reading line i as a count (the second significant line) or as a
\* pitch (a later one) gives; Ok for a line that is skipped or is the name
ReadAs(rank, l) ==
    IF DeComment(l) = <<>> \/ rank <= 1 THEN Ok(0)
    ELSE IF rank = 2 THEN ParseUInt(Squeezed(DeComment(l)), USIZE_MAX)
    ELSE Pitch_from_str(Squeezed(DeComment(l)))

LineResult(i) == ReadAs(Len(Significant(SubSeq(lines, 1, i))), lines[i])

Malformed(i) == LineResult(i).tag = "Err"

FirstMalformed == CHOOSE i \in 1..Len(lines) : Malformed(i) /\ \A j \in 1..(i - 1) : ~Malformed(j)

C7_FirstErrorReturned ==
    (Returned /\ \E i \in 1..Len(lines) : Malformed(i)) =>
        /\ ret = Err(LineResult(FirstMalformed).err)
        /\ pos = FirstMalformed - 1

----------------------------------------------------------------------------
\* C9: a line that holds only whitespace once its comment is removed is a
\* blank line: Scale parse skips it, so the result is that of the input
\* without such lines.

BlankLine(l) == Squeezed(DeComment(l)) = <<>>

C9_WhitespaceLineSkipped ==
    Returned => ret = Scale_from_str(JoinLines(SelectSeq(lines, LAMBDA l : ~BlankLine(l))))

----------------------------------------------------------------------------
\* C10: Pitch parse and Scale parse are total: they return a value or an
\* error and never abort, and a Ratio pitch they return has a non-zero
\* denominator.

NonZeroDenom(p) == p.kind = "Ratio" => p.ratio.denom # 0

C10_NeverAborts ==
    /\ pitch # Panic
    /\ ret # Panic
    /\ pitch.tag = "Ok" => NonZeroDenom(pitch.val)
    /\ ret.tag = "Ok" => \A i \in 1..Len(ret.val.pitches) : NonZeroDenom(ret.val.pitches[i])

----------------------------------------------------------------------------
\* C5: Pitch parse classifies the space-stripped text by branch order: with
\* a "." the result is Cents or a ParseFloat error, even beside a "/";
\* otherwise with a "/" it is Ratio(n, d) when the halves around the first
\* "/" are valid unsigned integers n and d, and a ParseInt error when one is
\* not; otherwise it is Ratio(n, 1) for a valid unsigned integer n, and a
\* ParseInt error when it is not.

IsCents(r) == r.tag = "Ok" /\ r.val.kind = "Cents"

\* Ok(Ratio(n, d)), by the equality of rationals
IsRatio(r, n, d) ==
    /\ r.tag = "Ok"
    /\ r.val.kind = "Ratio"
    /\ r.val.ratio.denom # 0
    /\ r.val.ratio.numer * d = n * r.val.ratio.denom

IsError(r, type) == r.tag = "Err" /\ r.err.type = type

Halves(s) == <<SubSeq(s, 1, IndexOf(s, "/") - 1), SubSeq(s, IndexOf(s, "/") + 1, Len(s))>>

Valid(s) == ParseUInt(s, U128_MAX).tag = "Ok"

Value(s) == ParseUInt(s, U128_MAX).val

Classified(r, s) ==
    IF contains(s, ".") THEN IsCents(r) \/ IsError(r, "ParseFloat")
    ELSE IF contains(s, "/")
         THEN IF Valid(Halves(s)[1]) /\ Valid(Halves(s)[2])
              THEN IsRatio(r, Value(Halves(s)[1]), Value(Halves(s)[2]))
              ELSE IsError(r, "ParseInt")
    ELSE IF Valid(s) THEN r = Ok(Ratio([numer |-> Value(s), denom |-> 1]))
    ELSE IsError(r, "ParseInt")

C5_BranchOrder == pitch # Running => Classified(pitch, remove_spaces(text))

----------------------------------------------------------------------------
\* C6: formatting a parsed ratio.  As claimed: for a pitch text "n/d" with
\* d # 0 the formatted pitch is "n/d" with the numbers as written, and a
\* bare integer n is formatted "n/1".

Fraction(n, d) == FormatUInt(n) \o <<"/">> \o FormatUInt(d)

IsFraction(s) == ~contains(s, ".") /\ contains(s, "/") /\ Valid(Halves(s)[1]) /\ Valid(Halves(s)[2]) /\ Value(Halves(s)[2]) # 0

IsInteger(s) == ~contains(s, ".") /\ ~contains(s, "/") /\ Valid(s)

\* the text is "n/d" exactly, the numbers in plain decimal
Plain(s) == s = Fraction(Value(Halves(s)[1]), Value(Halves(s)[2]))

AsWritten(out, s) ==
    /\ (IsFraction(s) /\ Plain(s)) => out = s
    /\ IsInteger(s) => out = Fraction(Value(s), 1)

C6_AsWritten == shown # None => AsWritten(shown[1], remove_spaces(text))

\* C6, amended: the formatted pitch is the fraction in lowest terms, n and d
\* each divided by their greatest common divisor ("4/2" gives "2/1", "0/5"
\* gives "0/1"); a bare integer n is formatted "n/1".

Divides(g, n) == n % g = 0

GreatestCommonDivisor(n, d) == CHOOSE g \in 1..d : Divides(g, n) /\ Divides(g, d) /\ \A h \in (g + 1)..d : ~(Divides(h, n) /\ Divides(h, d))

LowestTerms(n, d) == Fraction(n \div GreatestCommonDivisor(n, d), d \div GreatestCommonDivisor(n, d))

Reduced(out, s) ==
    /\ IsFraction(s) => out = LowestTerms(Value(Halves(s)[1]), Value(Halves(s)[2]))
    /\ IsInteger(s) => out = Fraction(Value(s), 1)

C6_LowestTerms == shown # None => Reduced(shown[1], remove_spaces(text))

\* "2/2" has been parsed and formatted, as "1/1"
C6_Witness == text = <<"2", "/", "2">> /\ shown = Some(<<"1", "/", "1">>)

----------------------------------------------------------------------------
\* C1: round trip.  As claimed: for every Scale value, parsing the text that
\* Display wrote succeeds and gives the same name, the same number of
\* pitches and equal pitches in the same order (Ratio exactly, Cents to 5
\* decimals).

\* v rounded to the 5 decimals that Display writes
Rounded(v) ==
    IF v.fin /\ v.u < 0 THEN Fin(0 - RoundDiv(0 - v.u, 10) * 10)
    ELSE IF v.fin THEN Fin(RoundDiv(v.u, 10) * 10)
    ELSE v

SamePitch(p, q) ==
    /\ p.kind = q.kind
    /\ p.kind = "Ratio" => q.ratio = p.ratio
    /\ p.kind = "Cents" => f64_eq(q.cents, Rounded(p.cents))

SameScale(r, sc) ==
    /\ r.tag = "Ok"
    /\ r.val.name = sc.name
    /\ Len(r.val.pitches) = Len(sc.pitches)
    /\ \A i \in 1..Len(sc.pitches) : SamePitch(sc.pitches[i], r.val.pitches[i])

C1_RoundTripAny == Returned => SameScale(ret, scale)

\* C1, amended: the round trip holds for a Scale whose name is not empty,
\* holds no "!" and no line feed and does not end in a carriage return, and
\* whose Cents values are finite.

NameOnOneLine(n) == n # <<>> /\ ~contains(n, "!") /\ ~contains(n, "\n") /\ n[Len(n)] # "\r"

FinitePitch(p) == p.kind = "Cents" => p.cents.fin

Writable(sc) == NameOnOneLine(sc.name) /\ \A i \in 1..Len(sc.pitches) : FinitePitch(sc.pitches[i])

C1_RoundTrip == (Returned /\ Writable(scale)) => SameScale(ret, scale)

\* a scale named " a b" with a cents value that Display rounds and a ratio
\* has been written and read back
C1_Witness ==
    /\ ret.tag = "Ok"
    /\ scale.name = <<" ", "a", " ", "b">>
    /\ scale.pitches = <<Cents(Fin(700123456)), Ratio([numer |-> 3, denom |-> 2])>>
    /\ ret.val.pitches[1] = Cents(Fin(700123460))

====
